---- MODULE Spec2Model ----
(***************************************************************************)
(* Funding-rate arbitrage scanner: the rate collector                      *)
(* (arbitrage_scanner.py), the spread detector and enrichment layer        *)
(* (advanced_scan.py) and the history logger (log_top3.py).                *)
(*                                                                         *)
(* Conventions                                                             *)
(*   - a funding rate is an integer number of thousandths (0.004 is 4);    *)
(*   - a timestamp is an integer number of milliseconds since the epoch;   *)
(*   - an optional value is None (<<>>) or Some(x) (<<x>>); a float that   *)
(*     is not a number is NaN;                                             *)
(*   - a float that need not be whole (a volume average, an interval in    *)
(*     hours) is a reduced fraction [num, den];                            *)
(*   - a symbol is a positive integer: the index of its market in the      *)
(*     exchange's catalogue.                                               *)
(***************************************************************************)
EXTENDS Integers, Sequences, FiniteSets, TLC

VARIABLES
    gw,                 \* the exchange gateway: per exchange, capabilities, catalogue, data
    symbols_arg,        \* the symbols argument of fetch_funding_rates (None from main)
    pc,                 \* where the running process is
    fut,                \* the executor's futures, one per exchange
    all_rates,          \* fetch_funding_rates: the rows collected so far
    skipped_exchanges,  \* ArbitrageScanner.skipped_exchanges
    calls,              \* per exchange, the symbols fetch_funding_rate was called with
    df_rates,           \* the DataFrame fetch_funding_rates returned
    k,                  \* advanced_scan.main: the turn of the innermost loop to run next
    sel,                \* advanced_scan.main: the locals of the last turn
    opportunities,      \* advanced_scan.main: the opportunities found so far
    today,              \* the date in Bogota
    csv,                \* advanced_opportunities.csv: None (no file) or Some(rows)
    history_file,       \* scan_history.md: its lines
    runs,               \* the scans started so far
    call,               \* a direct call of a function of the scanner: its arguments
    ret                 \* what that call returned

scan_vars == <<k, sel, opportunities>>
file_vars == <<today, csv, history_file, runs>>
call_vars == <<call, ret>>

vars == <<gw, symbols_arg, pc, fut, all_rates, skipped_exchanges, calls, df_rates,
          k, sel, opportunities, today, csv, history_file, runs, call, ret>>

-----------------------------------------------------------------------------
(* Values *)

None == <<>>
Some(x) == <<x>>
NaN == <<"NaN", "NaN">>
IsNum(o) == Len(o) = 1
Val(o) == o[1]

\* Python's truth value of an optional number: None and 0 are false, NaN is true.
Truthy(o) == IF IsNum(o) THEN Val(o) # 0 ELSE o = NaN

\* Python's `a or b`.
Or(a, b) == IF Truthy(a) THEN a ELSE b

MS_PER_HOUR == 3600000

RECURSIVE GCD(_, _)
GCD(a, b) == IF b = 0 THEN a ELSE GCD(b, a % b)

Abs(x) == IF x < 0 THEN -x ELSE x

\* The float num / den (den > 0), as a reduced fraction.
Frac(n, d) ==
    LET g == GCD(Abs(n), d) IN
    IF n = 0 THEN [num |-> 0, den |-> 1] ELSE [num |-> n \div g, den |-> d \div g]

FracLess(x, y) == x.num * y.den < y.num * x.den

RECURSIVE SeqSum(_)
SeqSum(s) == IF s = <<>> THEN 0 ELSE s[1] + SeqSum(Tail(s))

Range(s) == {s[i] : i \in DOMAIN s}

-----------------------------------------------------------------------------
(* The configured exchanges and the gateway *)

Exchanges == {"A", "B"}

\* A key a dict does not hold (as opposed to a key holding None).
Absent == <<"absent", "absent">>
\* Python's False where a number is expected.
PyFalse == <<"False", "False">>

\* A market of the catalogue (exchange.markets[s]): fundingInterval is the raw
\* value of info['fundingInterval'] (PyInt, PyStr, PyNone or NoInterval),
\* taker and maker the fee fields (Absent, None or Some(fee)), feeSide that
\* field (Absent or Some(side)).
MarketMeta(swap, linear, fundingInterval, taker, maker, feeSide) ==
    [swap |-> swap, linear |-> linear, fundingInterval |-> fundingInterval,
     taker |-> taker, maker |-> maker, feeSide |-> feeSide]
\* info holds no 'fundingInterval'.
NoInterval == [t |-> "absent", v |-> 0, chars |-> <<>>]
Market(swap, linear) == MarketMeta(swap, linear, NoInterval, Absent, Absent, Absent)

\* What the exchange answers for a symbol's funding rate; raises is TRUE when
\* the singular fetch of that symbol raises (the bulk answer then lacks it).
Funding(rate, next, nextTs) ==
    [raises |-> FALSE, fundingRate |-> rate, nextFundingTime |-> next,
     nextFundingRateTimestamp |-> nextTs]
RaisesFunding ==
    [raises |-> TRUE, fundingRate |-> None, nextFundingTime |-> None,
     nextFundingRateTimestamp |-> None]

\* What fetch_ohlcv answers: it raises, or a sequence of candles <<close, volume>>
\* (the columns of a candle that are read).
Ohlcv(candles) == [raises |-> FALSE, candles |-> candles]
RaisesOhlcv == [raises |-> TRUE, candles |-> <<>>]

\* What fetch_funding_rate_history answers: it raises, or the timestamps of
\* its entries.
RateHistory(timestamps) == [raises |-> FALSE, timestamps |-> timestamps]
RaisesHistory == [raises |-> TRUE, timestamps |-> <<>>]

\* One exchange of the gateway: its capabilities (exchange.has), its catalogue,
\* and per symbol its funding data, the answers fetch_ohlcv can give and the
\* answers fetch_funding_rate_history can give.
Gateway(hasBulk, hasSingle, markets, funding) ==
    [has_fetchFundingRates |-> hasBulk, has_fetchFundingRate |-> hasSingle,
     markets |-> markets, funding |-> funding,
     has_fetchOHLCV |-> FALSE, ohlcv |-> [s \in DOMAIN markets |-> {RaisesOhlcv}],
     has_fetchFundingRateHistory |-> FALSE,
     history |-> [s \in DOMAIN markets |-> {RaisesHistory}]]

\* No direct call was made.
NoCall == [fn |-> "none"]

-----------------------------------------------------------------------------
(* Rate collector: ArbitrageScanner._fetch_exchange_rates *)

SINGULAR_CEILING == 20

\* The row appended for a symbol's data (the 'timestamp' column, the time of
\* observation, is read nowhere and left out).
RateRow(name, symbol, data) ==
    [exchange |-> name, symbol |-> symbol, funding_rate |-> Val(data.fundingRate),
     next_funding_time |-> Or(data.nextFundingTime, data.nextFundingRateTimestamp)]

\* The rows of `for symbol, data in rates.items()`, of the symbols in syms.
RECURSIVE BulkRows(_, _, _)
BulkRows(name, ex, syms) ==
    IF syms = <<>> THEN <<>>
    ELSE LET data == ex.funding[Head(syms)] IN
         (IF data.fundingRate # None THEN <<RateRow(name, Head(syms), data)>> ELSE <<>>)
             \o BulkRows(name, ex, Tail(syms))

\* exchange.fetch_funding_rates(symbols): the symbols of the answer, all the
\* exchange has data for when symbols is None or empty.
BulkSymbols(ex, symbols) ==
    LET known == [i \in 1..Len(ex.markets) |-> i]
        has(s) == ~ex.funding[s].raises
    IN  IF symbols # None /\ Val(symbols) # <<>>
        THEN SelectSeq(Val(symbols), LAMBDA s : s \in Range(known) /\ has(s))
        ELSE SelectSeq(known, has)

\* The linear-swap symbols of the catalogue.
LinearSwapSymbols(ex) ==
    SelectSeq([i \in 1..Len(ex.markets) |-> i],
              LAMBDA s : ex.markets[s].swap /\ ex.markets[s].linear)

\* The singular loop over target_symbols: the rows, and the symbols fetched.
RECURSIVE SingularRows(_, _, _)
SingularRows(name, ex, syms) ==
    IF syms = <<>> THEN [rows |-> <<>>, fetched |-> <<>>]
    ELSE LET s == Head(syms)
             rest == SingularRows(name, ex, Tail(syms))
         IN  IF s \notin 1..Len(ex.markets) THEN rest
             ELSE LET data == ex.funding[s] IN
                  [rows |-> (IF ~data.raises /\ data.fundingRate # None
                             THEN <<RateRow(name, s, data)>> ELSE <<>>) \o rest.rows,
                   fetched |-> <<s>> \o rest.fetched]

FetchResult(rows, skipped, fetched, error) ==
    [rates |-> rows, skipped |-> skipped, fetched |-> fetched, error |-> error]

\* `if len(target_symbols) > 20`
TooManySymbols_AtCeiling(target_symbols) == Len(target_symbols) >= SINGULAR_CEILING
TooManySymbols(target_symbols) == Len(target_symbols) > SINGULAR_CEILING

\* _fetch_exchange_rates(name, exchange, symbols); load_ok and bulk_ok say
\* whether load_markets and the bulk fetch return or raise (an error, a timeout).
fetch_exchange_rates(name, ex, symbols, load_ok, bulk_ok) ==
    IF ~load_ok THEN FetchResult(<<>>, <<>>, <<>>, TRUE)
    ELSE IF ex.has_fetchFundingRates
    THEN IF ~bulk_ok THEN FetchResult(<<>>, <<>>, <<>>, TRUE)
         ELSE FetchResult(BulkRows(name, ex, BulkSymbols(ex, symbols)), <<>>, <<>>, FALSE)
    ELSE LET linear == LinearSwapSymbols(ex)
             target_symbols == IF symbols = None THEN linear ELSE Val(symbols)
         IN  IF symbols = None /\ TooManySymbols(linear)
             THEN FetchResult(<<>>, <<[name |-> name, count |-> Len(linear)]>>, <<>>, FALSE)
             ELSE IF ex.has_fetchFundingRate
             THEN LET r == SingularRows(name, ex, target_symbols)
                  IN  FetchResult(r.rows, <<>>, r.fetched, FALSE)
             ELSE FetchResult(<<>>, <<>>, <<>>, FALSE)

-----------------------------------------------------------------------------
(* Rate collector: ArbitrageScanner.fetch_funding_rates *)

\* pd.DataFrame(rows): a column holding both numbers and None is a float
\* column, in which None is NaN; a column of None alone keeps None.
DataFrame(rows) ==
    LET anyNum == \E i \in DOMAIN rows : IsNum(rows[i].next_funding_time)
    IN  [i \in DOMAIN rows |->
            IF anyNum /\ rows[i].next_funding_time = None
            THEN [rows[i] EXCEPT !.next_funding_time = NaN]
            ELSE rows[i]]

Future(state, result, error) == [state |-> state, result |-> result, error |-> error]

\* executor.submit(...) for every exchange.
Submit ==
    /\ pc = "start"
    /\ pc' = "collect"
    /\ all_rates' = <<>>
    /\ fut' = [e \in Exchanges |-> Future("running", <<>>, FALSE)]
    /\ UNCHANGED <<call, ret, gw, symbols_arg, skipped_exchanges, calls, df_rates, scan_vars, file_vars>>

\* A worker runs _fetch_exchange_rates for its exchange.
FetchExchangeRates(e) ==
    /\ pc = "collect"
    /\ fut[e].state = "running"
    /\ \E load_ok, bulk_ok \in BOOLEAN :
          LET r == fetch_exchange_rates(e, gw[e], symbols_arg, load_ok, bulk_ok) IN
          /\ fut' = [fut EXCEPT ![e] = Future("done", r.rates, r.error)]
          /\ skipped_exchanges' = skipped_exchanges \o r.skipped
          /\ calls' = [calls EXCEPT ![e] = r.fetched]
    /\ UNCHANGED <<call, ret, gw, symbols_arg, pc, all_rates, df_rates, scan_vars, file_vars>>

\* (all_rates = rates in place of all_rates.extend(rates))
AsCompleted_Assign(e) ==
    /\ pc = "collect"
    /\ fut[e].state = "done"
    /\ fut' = [fut EXCEPT ![e].state = "collected"]
    /\ all_rates' = IF fut[e].result # <<>> THEN fut[e].result ELSE all_rates
    /\ UNCHANGED <<call, ret, gw, symbols_arg, pc, skipped_exchanges, calls, df_rates, scan_vars, file_vars>>

\* One turn of `for future in as_completed(...)`.
AsCompleted(e) ==
    /\ pc = "collect"
    /\ fut[e].state = "done"
    /\ fut' = [fut EXCEPT ![e].state = "collected"]
    /\ all_rates' = IF fut[e].result # <<>> THEN all_rates \o fut[e].result ELSE all_rates
    /\ UNCHANGED <<call, ret, gw, symbols_arg, pc, skipped_exchanges, calls, df_rates, scan_vars, file_vars>>

\* return pd.DataFrame(all_rates)
FetchReturn ==
    /\ pc = "collect"
    /\ \A e \in Exchanges : fut[e].state = "collected"
    /\ df_rates' = DataFrame(all_rates)
    /\ pc' = "fetched"
    /\ UNCHANGED <<call, ret, gw, symbols_arg, fut, all_rates, skipped_exchanges, calls, scan_vars, file_vars>>

-----------------------------------------------------------------------------
(* Enrichment layer: get_volume_1h, get_funding_interval, get_fees *)

\* get_volume_1h(exchange_name, symbol): known says whether the name is a
\* configured exchange, answer is what fetch_ohlcv does.
get_volume_1h(known, ex, answer) ==
    IF ~known THEN None
    ELSE IF ~ex.has_fetchOHLCV THEN None
    ELSE IF answer.raises THEN None
    ELSE IF answer.candles = <<>> THEN None
    ELSE LET volumes_usd == [i \in DOMAIN answer.candles |->
                                answer.candles[i][1] * answer.candles[i][2]]
         IN  Some(Frac(SeqSum(volumes_usd), Len(volumes_usd)))

Digits == <<"0", "1", "2", "3", "4", "5", "6", "7", "8", "9">>
IsDigit(c) == \E i \in DOMAIN Digits : Digits[i] = c
DigitVal(c) == (CHOOSE i \in DOMAIN Digits : Digits[i] = c) - 1

RECURSIVE DigitsVal(_, _)
DigitsVal(chars, acc) ==
    IF chars = <<>> THEN acc ELSE DigitsVal(Tail(chars), acc * 10 + DigitVal(Head(chars)))

\* A raw metadata value: a Python int, a string (its characters) or None.
PyInt(n) == [t |-> "int", v |-> n, chars |-> <<>>]
PyStr(chars) == [t |-> "str", v |-> 0, chars |-> chars]
PyNone == [t |-> "none", v |-> 0, chars |-> <<>>]

\* int(raw): Some(value), or None when it raises (None, or a string that is
\* not an optional sign followed by digits).
PyIntOf(raw) ==
    IF raw.t = "int" THEN Some(raw.v)
    ELSE IF raw.t = "none" THEN None
    ELSE LET neg == raw.chars # <<>> /\ Head(raw.chars) = "-"
             body == IF raw.chars # <<>> /\ Head(raw.chars) \in {"-", "+"}
                     THEN Tail(raw.chars) ELSE raw.chars
         IN  IF body = <<>> \/ \E i \in DOMAIN body : ~IsDigit(body[i]) THEN None
             ELSE Some(IF neg THEN -DigitsVal(body, 0) ELSE DigitsVal(body, 0))

DEFAULT_INTERVAL == 8
MAX_HOURS == 24
MINUTES_PER_HOUR == 60

RECURSIVE SortAsc(_)
\* sorted(hist, key=timestamp)
SortAsc(s) ==
    IF s = <<>> THEN <<>>
    ELSE LET i == CHOOSE j \in DOMAIN s : \A l \in DOMAIN s : s[j] <= s[l]
         IN  <<s[i]>> \o SortAsc([l \in 1..(Len(s) - 1) |-> IF l < i THEN s[l] ELSE s[l + 1]])

\* `if diff_ms > 0`
PositiveDiff(diff_ms) == diff_ms > 0

\* `if val > 24`
IsMinutes_From24(val) == val >= MAX_HOURS
IsMinutes(val) == val > MAX_HOURS

\* get_funding_interval(exchange_name, symbol), in hours: known says whether
\* the name is a configured exchange, loaded whether the client holds its
\* markets, load_ok whether load_markets returns, answer what
\* fetch_funding_rate_history does.
get_funding_interval(known, ex, symbol, loaded, load_ok, answer) ==
    LET default == Frac(DEFAULT_INTERVAL, 1) IN
    IF ~known THEN default
    ELSE IF ~loaded /\ ~load_ok THEN default
    ELSE IF symbol \notin DOMAIN ex.markets THEN default
    ELSE LET raw == ex.markets[symbol].fundingInterval
             val == IF raw = NoInterval THEN None ELSE PyIntOf(raw)
         IN  IF val # None
             THEN IF IsMinutes(Val(val)) THEN Frac(Val(val), MINUTES_PER_HOUR)
                  ELSE Frac(Val(val), 1)
             ELSE IF ex.has_fetchFundingRateHistory /\ ~answer.raises
                     /\ Len(answer.timestamps) >= 2
             THEN LET hist == SortAsc(answer.timestamps)
                      diff_ms == hist[Len(hist)] - hist[Len(hist) - 1]
                  IN  IF PositiveDiff(diff_ms) THEN Frac(diff_ms, MS_PER_HOUR) ELSE default
             ELSE default

DEFAULT_TAKER == 5
DEFAULT_MAKER == 2

\* Python's `a == b and c` for a number c.
AndThen(cond, c) == IF cond THEN Some(c) ELSE PyFalse

\* get_fees(exch_name, sym), in ten-thousandths: known says whether the name
\* is a configured exchange, market_ok whether ex.market(sym) returns.
get_fees(known, ex, sym, market_ok) ==
    LET default == [taker |-> Some(DEFAULT_TAKER), maker |-> Some(DEFAULT_MAKER)] IN
    IF ~known THEN default
    ELSE IF ~market_ok \/ sym \notin DOMAIN ex.markets THEN default
    ELSE LET m == ex.markets[sym]
             takerSide == IF m.feeSide = Absent THEN "get" ELSE Val(m.feeSide)
             makerSide == IF m.feeSide = Absent THEN "make" ELSE Val(m.feeSide)
             taker == IF m.taker # Absent THEN m.taker
                      ELSE AndThen(takerSide = "get", DEFAULT_TAKER)
             maker == IF m.maker # Absent THEN m.maker
                      ELSE AndThen(makerSide = "make", DEFAULT_MAKER)
         IN  [taker |-> IF taker = None THEN Some(DEFAULT_TAKER) ELSE taker,
              maker |-> IF maker = None THEN Some(DEFAULT_MAKER) ELSE maker]

-----------------------------------------------------------------------------
(* Spread detector: advanced_scan.py *)

TARGET_HOURS_BOGOTA == <<7, 11, 15, 19, 23>>
UTC_OFFSET == -5
POSITION_SIZE == 500
LEVERAGE == 10
MIN_VOLUME_1M == 10
THRESHOLD == 4

\* The hour of the day in Bogota of a timestamp in milliseconds.
BogotaHour(ms) == ((ms \div MS_PER_HOUR) + UTC_OFFSET) % 24

\* The fallback of check_funding_time_match: the hours an exchange without a
\* next-funding timestamp is taken to charge at.
FallbackHours == {11, 19}

\* check_funding_time_match(timestamp_ms, target_hour): raised is TRUE when
\* datetime.fromtimestamp raises (on NaN), value is the boolean returned.
check_funding_time_match(timestamp_ms, target_hour) ==
    IF ~Truthy(timestamp_ms)
    THEN [raised |-> FALSE, value |-> target_hour \in FallbackHours]
    ELSE IF timestamp_ms = NaN THEN [raised |-> TRUE, value |-> FALSE]
    ELSE [raised |-> FALSE, value |-> BogotaHour(Val(timestamp_ms)) = target_hour]

\* `if spread_1 > spread_2`: direction 1 (long a, short b) is taken.
FirstDirection_Smaller(spread_1, spread_2) == spread_1 < spread_2
FirstDirection(spread_1, spread_2) == spread_1 > spread_2

\* `if best_spread > 0.004`
Qualifies_AtThreshold(best_spread) == best_spread >= THRESHOLD
Qualifies_Any(best_spread) == best_spread >= 0
Qualifies(best_spread) == best_spread > THRESHOLD

\* The body of the loop over target hours up to the threshold test: the two
\* directional spreads and the direction selected.
SelectSpread(a, b, target_hour) ==
    LET ca == check_funding_time_match(a.next_funding_time, target_hour)
        cb == check_funding_time_match(b.next_funding_time, target_hour)
        rate_a_eff == IF ca.value THEN a.funding_rate ELSE 0
        rate_b_eff == IF cb.value THEN b.funding_rate ELSE 0
        spread_1 == rate_b_eff - rate_a_eff
        spread_2 == rate_a_eff - rate_b_eff
        first == FirstDirection(spread_1, spread_2)
    IN  [raised |-> ca.raised \/ cb.raised,
         a |-> a, b |-> b, target_hour |-> target_hour,
         a_charges |-> ca.value, b_charges |-> cb.value,
         rate_a_eff |-> rate_a_eff, rate_b_eff |-> rate_b_eff,
         spread_1 |-> spread_1, spread_2 |-> spread_2,
         best_spread |-> IF first THEN spread_1 ELSE spread_2,
         long_side |-> IF first THEN a ELSE b,
         short_side |-> IF first THEN b ELSE a]

\* The strict volume check: TRUE when the candidate is kept.
VolumeOk_Exclusive(vol_l, vol_s) ==
    ~(   (vol_l = None \/ ~FracLess(Frac(MIN_VOLUME_1M, 1), Val(vol_l)))
      \/ (vol_s = None \/ ~FracLess(Frac(MIN_VOLUME_1M, 1), Val(vol_s))))
VolumeOk(vol_l, vol_s) ==
    ~(   (vol_l = None \/ FracLess(Val(vol_l), Frac(MIN_VOLUME_1M, 1)))
      \/ (vol_s = None \/ FracLess(Val(vol_s), Frac(MIN_VOLUME_1M, 1))))

RECURSIVE SetToSortedSeq(_)
SetToSortedSeq(S) ==
    IF S = {} THEN <<>>
    ELSE LET m == CHOOSE x \in S : \A y \in S : x <= y
         IN  <<m>> \o SetToSortedSeq(S \ {m})

\* df_rates.groupby('symbol'): the keys in order, and a key's rows in the
\* frame's order.
GroupKeys(df) == SetToSortedSeq({df[i].symbol : i \in DOMAIN df})
Group(df, symbol) == SelectSeq(df, LAMBDA r : r.symbol = symbol)

\* The index pairs of `for i in range(n): for j in range(i + 1, n)`.
RECURSIVE IndexPairs(_, _, _)
IndexPairs(i, j, n) ==
    IF i >= n THEN <<>>
    ELSE IF j > n THEN IndexPairs(i + 1, i + 2, n)
    ELSE <<<<i, j>>>> \o IndexPairs(i, j + 1, n)

RECURSIVE PairIterations(_, _, _)
PairIterations(symbol, exchanges, pairs) ==
    IF pairs = <<>> THEN <<>>
    ELSE [h \in DOMAIN TARGET_HOURS_BOGOTA |->
            [symbol |-> symbol, a |-> exchanges[Head(pairs)[1]],
             b |-> exchanges[Head(pairs)[2]], target_hour |-> TARGET_HOURS_BOGOTA[h]]]
         \o PairIterations(symbol, exchanges, Tail(pairs))

RECURSIVE GroupIterations(_, _)
GroupIterations(df, keys) ==
    IF keys = <<>> THEN <<>>
    ELSE LET exchanges == Group(df, Head(keys))
         IN  (IF Len(exchanges) < 2 THEN <<>>
              ELSE PairIterations(Head(keys), exchanges, IndexPairs(1, 2, Len(exchanges))))
             \o GroupIterations(df, Tail(keys))

\* Every turn of the innermost loop of main, in order.
Iterations(df) == GroupIterations(df, GroupKeys(df))

\* The locals before the first turn.
NoSelection == [raised |-> FALSE]

\* The locals of a turn whose candidate passed the threshold.
Enriched(s, vol_l, vol_s) ==
    [raised |-> s.raised, a |-> s.a, b |-> s.b, target_hour |-> s.target_hour,
     a_charges |-> s.a_charges, b_charges |-> s.b_charges,
     rate_a_eff |-> s.rate_a_eff, rate_b_eff |-> s.rate_b_eff,
     spread_1 |-> s.spread_1, spread_2 |-> s.spread_2, best_spread |-> s.best_spread,
     long_side |-> s.long_side, short_side |-> s.short_side,
     vol_l |-> vol_l, vol_s |-> vol_s]

\* 'N/A', and the %H:%M of a timestamp as minutes of the day (the host's clock
\* is taken to be Bogota's).
NA == <<"N/A", "N/A">>
NextLabel(ts) ==
    IF Truthy(ts) THEN Some(BogotaHour(Val(ts)) * 60 + ((Val(ts) \div 60000) % 60)) ELSE NA

\* The row of an opportunity.
Opportunity(date, s, symbol, vol_l, vol_s, int_l, int_s, fees_l, fees_s) ==
    [FECHA |-> date, HORA |-> s.target_hour, PAR |-> symbol,
     VALOR_OP |-> POSITION_SIZE, LEVERAGE |-> LEVERAGE,
     LONG_EXCH |-> s.long_side.exchange, LONG_RATE |-> s.long_side.funding_rate,
     LONG_NEXT |-> NextLabel(s.long_side.next_funding_time),
     LONG_INTERVAL |-> int_l, LONG_VOL_1M |-> vol_l,
     LONG_FEE_TAKER |-> fees_l.taker, LONG_FEE_MAKER |-> fees_l.maker,
     SHORT_EXCH |-> s.short_side.exchange, SHORT_RATE |-> s.short_side.funding_rate,
     SHORT_NEXT |-> NextLabel(s.short_side.next_funding_time),
     SHORT_INTERVAL |-> int_s, SHORT_VOL_1M |-> vol_s,
     SHORT_FEE_TAKER |-> fees_s.taker, SHORT_FEE_MAKER |-> fees_s.maker,
     SPREAD |-> s.best_spread,
     ASYMMETRIC |-> IF int_l # int_s THEN "Yes" ELSE "No"]

\* main, from the return of fetch_funding_rates to the loop over the groups.
MainGroup ==
    /\ pc = "fetched"
    /\ IF df_rates = <<>>
       THEN pc' = "done" /\ UNCHANGED <<k, opportunities>>
       ELSE pc' = "scan" /\ k' = 1 /\ opportunities' = <<>>
    /\ UNCHANGED <<call, ret, gw, symbols_arg, fut, all_rates, skipped_exchanges, calls, df_rates,
                   sel, file_vars>>

\* One turn of the loop over the target hours of a pair; an exception of
\* check_funding_time_match ends the process.
ScanStep ==
    /\ pc = "scan"
    /\ k <= Len(Iterations(df_rates))
    /\ LET it == Iterations(df_rates)[k]
           s == SelectSpread(it.a, it.b, it.target_hour)
           long == gw[s.long_side.exchange]
           short == gw[s.short_side.exchange]
       IN  IF s.raised
           THEN pc' = "crashed" /\ sel' = s /\ UNCHANGED <<k, opportunities>>
           ELSE /\ pc' = pc
                /\ k' = k + 1
                /\ IF ~Qualifies(s.best_spread)
                   THEN sel' = s /\ UNCHANGED opportunities
                   ELSE \E ohlcv_l \in long.ohlcv[it.symbol],
                           ohlcv_s \in short.ohlcv[it.symbol],
                           hist_l \in long.history[it.symbol],
                           hist_s \in short.history[it.symbol] :
                        LET vol_l == get_volume_1h(TRUE, long, ohlcv_l)
                            vol_s == get_volume_1h(TRUE, short, ohlcv_s)
                            int_l == get_funding_interval(TRUE, long, it.symbol,
                                                          TRUE, TRUE, hist_l)
                            int_s == get_funding_interval(TRUE, short, it.symbol,
                                                          TRUE, TRUE, hist_s)
                        IN  /\ sel' = Enriched(s, vol_l, vol_s)
                            /\ IF ~VolumeOk(vol_l, vol_s)
                               THEN UNCHANGED opportunities
                               ELSE opportunities' = Append(opportunities,
                                       Opportunity(today, s, it.symbol, Val(vol_l),
                                                   Val(vol_s), int_l, int_s,
                                                   get_fees(TRUE, long, it.symbol, TRUE),
                                                   get_fees(TRUE, short, it.symbol, TRUE)))
    /\ UNCHANGED <<call, ret, gw, symbols_arg, fut, all_rates, skipped_exchanges, calls, df_rates,
                   file_vars>>

\* df_final.to_csv('advanced_opportunities.csv'): the file is replaced.
to_csv(rows) == Some(rows)

\* main, after the loops: nothing is written when no opportunity was found.
MainFinish ==
    /\ pc = "scan"
    /\ k > Len(Iterations(df_rates))
    /\ pc' = "done"
    /\ csv' = IF opportunities = <<>> THEN csv ELSE to_csv(opportunities)
    /\ UNCHANGED <<call, ret, gw, symbols_arg, fut, all_rates, skipped_exchanges, calls, df_rates,
                   scan_vars, today, history_file, runs>>

-----------------------------------------------------------------------------
(* Report writer: log_top3.py *)

MIN_VOL == 5000
TOP_N == 3
TARGET_HOURS == <<7, 11, 15, 19, 23>>

RECURSIVE FirstTarget(_, _)
\* `for t in TARGET_HOURS: if t - 1 <= hour <= t: return t`, None when none does.
FirstTarget(ts, hour) ==
    IF ts = <<>> THEN None
    ELSE IF Head(ts) - 1 <= hour /\ hour <= Head(ts) THEN Some(Head(ts))
    ELSE FirstTarget(Tail(ts), hour)

\* get_target_label() at the given hour of the day: the target hour of the label.
get_target_label(hour) ==
    IF FirstTarget(TARGET_HOURS, hour) # None THEN Val(FirstTarget(TARGET_HOURS, hour))
    ELSE LET i == CHOOSE j \in DOMAIN TARGET_HOURS :
                     /\ \A l \in DOMAIN TARGET_HOURS :
                            Abs(TARGET_HOURS[j] - hour) <= Abs(TARGET_HOURS[l] - hour)
                     /\ \A l \in 1..(j - 1) :
                            Abs(TARGET_HOURS[l] - hour) > Abs(TARGET_HOURS[j] - hour)
         IN  TARGET_HOURS[i]

\* format_pct of a rate in thousandths: the ten-thousandths of a percent printed.
format_pct(val) == val * 1000

\* n / d rounded to a whole number, halves to the even one.
RoundHalfEven(n, d) ==
    LET q == n \div d
        r == n % d
    IN  IF 2 * r < d THEN q ELSE IF 2 * r > d THEN q + 1 ELSE q + (q % 2)

\* format_vol: the unit printed and the digits before it (tenths for M and k).
format_vol(v) ==
    IF ~FracLess(v, Frac(1000000, 1))
    THEN [unit |-> "M", digits |-> RoundHalfEven(v.num, v.den * 100000)]
    ELSE IF ~FracLess(v, Frac(1000, 1))
    THEN [unit |-> "k", digits |-> RoundHalfEven(v.num, v.den * 100)]
    ELSE [unit |-> "", digits |-> RoundHalfEven(v.num, v.den)]

\* pd.read_csv: the rows of the file; 'N/A' is read as NaN.
read_csv(rows) ==
    [i \in DOMAIN rows |->
        [rows[i] EXCEPT !.LONG_NEXT = IF @ = NA THEN NaN ELSE @,
                        !.SHORT_NEXT = IF @ = NA THEN NaN ELSE @]]

\* The volume filter of log_top3.
VolumeFilter(df) ==
    SelectSeq(df, LAMBDA r : /\ ~FracLess(r.LONG_VOL_1M, Frac(MIN_VOL, 1))
                             /\ ~FracLess(r.SHORT_VOL_1M, Frac(MIN_VOL, 1)))

RECURSIVE SortBySpreadDesc(_)
\* df.sort_values('SPREAD', ascending=False): equal spreads keep their order.
SortBySpreadDesc(df) ==
    IF df = <<>> THEN <<>>
    ELSE LET i == CHOOSE j \in DOMAIN df :
                     /\ \A l \in DOMAIN df : df[j].SPREAD >= df[l].SPREAD
                     /\ \A l \in 1..(j - 1) : df[l].SPREAD < df[j].SPREAD
         IN  <<df[i]>> \o
             SortBySpreadDesc([l \in 1..(Len(df) - 1) |-> IF l < i THEN df[l] ELSE df[l + 1]])

Combo(r) == <<r.PAR, r.LONG_EXCH, r.SHORT_EXCH>>

\* df.drop_duplicates(subset=['PAR', 'LONG_EXCH', 'SHORT_EXCH'], keep='first')
DropDuplicates_KeepLast(df) ==
    LET last(i) == \A l \in (i + 1)..Len(df) : Combo(df[l]) # Combo(df[i])
        keep == SetToSortedSeq({i \in DOMAIN df : last(i)})
    IN  [n \in DOMAIN keep |-> df[keep[n]]]
DropDuplicates(df) ==
    LET first(i) == \A l \in 1..(i - 1) : Combo(df[l]) # Combo(df[i])
        keep == SetToSortedSeq({i \in DOMAIN df : first(i)})
    IN  [n \in DOMAIN keep |-> df[keep[n]]]

\* df.head(n)
Head_n(df, n) == SubSeq(df, 1, IF Len(df) < n THEN Len(df) ELSE n)

\* The rows of the log: the top TOP_N of the filtered, sorted, deduplicated frame.
Top3(df) ==
    LET filtered == VolumeFilter(df)
    IN  IF filtered = <<>> THEN <<>>
        ELSE Head_n(DropDuplicates(SortBySpreadDesc(filtered)), TOP_N)

\* The lines of scan_history.md, and the elements of `lines`: the heading
\* element is "\n## date\n", three lines of the file.
Blank == [kind |-> "blank"]
Heading(date) == [kind |-> "heading", date |-> date]
ColumnHeader == [kind |-> "columns"]
Separator == [kind |-> "separator"]
Placeholder(label) == [kind |-> "placeholder", hora |-> label]
LogRow(label, rank, row) ==
    [kind |-> "row", hora |-> label, rank |-> rank, par |-> row.PAR,
     spread |-> format_pct(row.SPREAD),
     long_exch |-> row.LONG_EXCH, long_rate |-> format_pct(row.LONG_RATE),
     short_exch |-> row.SHORT_EXCH, short_rate |-> format_pct(row.SHORT_RATE),
     vol_l |-> format_vol(row.LONG_VOL_1M), vol_s |-> format_vol(row.SHORT_VOL_1M),
     asim |-> row.ASYMMETRIC = "Yes"]

\* `lines` as main builds it.
LogLines(needs_date_header, date, label, top3) ==
    (IF needs_date_header THEN <<Heading(date), ColumnHeader, Separator>> ELSE <<>>)
    \o (IF top3 = <<>> THEN <<Placeholder(label)>>
        ELSE [rank \in DOMAIN top3 |-> LogRow(label, rank, top3[rank])])

RECURSIVE Joined(_)
\* The lines of "\n".join(elements) + "\n".
Joined(elements) ==
    IF elements = <<>> THEN <<>>
    ELSE (IF Head(elements).kind = "heading"
          THEN <<Blank, Head(elements), Blank>> ELSE <<Head(elements)>>)
         \o Joined(Tail(elements))
Written(elements) == IF elements = <<>> THEN <<Blank>> ELSE Joined(elements)

\* What main appends to the file: the block under a new date heading,
\* lines[2:] otherwise.
Appended(needs_date_header, lines) ==
    IF needs_date_header THEN Written(lines)
    ELSE Written(SubSeq(lines, 3, Len(lines)))

\* log_top3.main at the given hour of the day.
log_top3(hour, date, file, log) ==
    IF file = None THEN log
    ELSE LET df == read_csv(Val(file)) IN
         IF df = <<>> THEN log
         ELSE LET needs_date_header == \A i \in DOMAIN log : log[i] # Heading(date)
                  lines == LogLines(needs_date_header, date, get_target_label(hour),
                                    Top3(df))
              IN  log \o Appended(needs_date_header, lines)

\* The hours of the day log_top3 is run at.
LogHours == {10, 17}

\* A run of log_top3, after a scan ended.
LogTop3 ==
    /\ pc \in {"done", "crashed"}
    /\ \E hour \in LogHours : history_file' = log_top3(hour, today, csv, history_file)
    /\ pc' = "logged"
    /\ UNCHANGED <<call, ret, gw, symbols_arg, fut, all_rates, skipped_exchanges, calls, df_rates,
                   scan_vars, today, csv, runs>>

MaxRuns == 2
MaxDays == 2

\* The next scan starts: a new process, a new ArbitrageScanner.
NewRun ==
    /\ pc = "logged"
    /\ runs < MaxRuns
    /\ runs' = runs + 1
    /\ pc' = "start"
    /\ fut' = [e \in Exchanges |-> Future("idle", <<>>, FALSE)]
    /\ all_rates' = <<>>
    /\ skipped_exchanges' = <<>>
    /\ calls' = [e \in Exchanges |-> <<>>]
    /\ df_rates' = <<>>
    /\ k' = 1
    /\ sel' = NoSelection
    /\ opportunities' = <<>>
    /\ UNCHANGED <<call, ret, gw, symbols_arg, today, csv, history_file>>

\* Midnight passes between two scans.
NextDay ==
    /\ pc = "logged"
    /\ today < MaxDays
    /\ today' = today + 1
    /\ UNCHANGED <<call, ret, gw, symbols_arg, pc, fut, all_rates, skipped_exchanges, calls,
                   df_rates, scan_vars, csv, history_file, runs>>

-----------------------------------------------------------------------------
(* The collector alone: fetch_funding_rates over gateways of every kind *)

\* Timestamps in the hours 11:00 and 15:00 of Bogota (16:00 and 20:00 UTC).
T11 == 16 * MS_PER_HOUR
T15 == 20 * MS_PER_HOUR

\* n linear swaps followed by m other markets.
Catalogue(n, m) == [i \in 1..(n + m) |-> Market(TRUE, i <= n)]

FetchCatalogues ==
    {Catalogue(2, 1), Catalogue(SINGULAR_CEILING - 1, 0),
     Catalogue(SINGULAR_CEILING, 0), Catalogue(SINGULAR_CEILING + 1, 0)}

\* The data of the odd and of the even symbols.
FetchPatterns ==
    {<<Funding(Some(2), None, None), Funding(Some(-6), Some(T11), None)>>,
     <<Funding(Some(2), Some(0), Some(T15)), RaisesFunding>>,
     <<RaisesFunding, Funding(None, Some(T11), None)>>,
     <<Funding(None, None, None), Funding(Some(-2), None, Some(T15))>>}

FetchGateways ==
    {Gateway(cap[1], cap[2], m, [s \in DOMAIN m |-> p[2 - (s % 2)]]) :
        cap \in {<<TRUE, TRUE>>, <<FALSE, TRUE>>, <<FALSE, FALSE>>},
        m \in FetchCatalogues, p \in FetchPatterns}

InitFetch ==
    /\ gw \in [Exchanges -> FetchGateways]
    /\ symbols_arg \in {None, Some(<<2, 1, 99>>)}
    /\ pc = "start"
    /\ fut = [e \in Exchanges |-> Future("idle", <<>>, FALSE)]
    /\ all_rates = <<>>
    /\ skipped_exchanges = <<>>
    /\ calls = [e \in Exchanges |-> <<>>]
    /\ df_rates = <<>>
    /\ k = 1
    /\ sel = NoSelection
    /\ opportunities = <<>>
    /\ today = 1
    /\ csv = None
    /\ history_file = <<>>
    /\ runs = 1
    /\ call = NoCall
    /\ ret = None

NextFetch ==
    \/ Submit
    \/ \E e \in Exchanges : FetchExchangeRates(e)
    \/ \E e \in Exchanges : AsCompleted(e)
    \/ FetchReturn

SpecFetch == InitFetch /\ [][NextFetch]_vars

-----------------------------------------------------------------------------
(* One scan: advanced_scan.main over two exchanges quoting two symbols *)

\* An exchange with bulk support, two linear swaps and candles.
ScanGateway(fundingInterval, funding, ohlcv, history) ==
    [has_fetchFundingRates |-> TRUE, has_fetchFundingRate |-> TRUE,
     markets |-> [s \in 1..2 |->
                     MarketMeta(TRUE, TRUE, fundingInterval, Absent, Absent, Absent)],
     funding |-> funding,
     has_fetchOHLCV |-> TRUE, ohlcv |-> ohlcv,
     has_fetchFundingRateHistory |-> TRUE, history |-> [s \in 1..2 |-> {history}]]

\* The data of the first symbol: no rate, or one of three rates with no
\* timestamp or one in the hour 11:00 or 15:00.
RichFunding ==
    {Funding(None, None, None)}
    \cup {Funding(Some(r), t, None) : r \in {-6, -2, 2}, t \in {None, Some(T11), Some(T15)}}

\* The data of the second symbol.
PoorFunding ==
    {RaisesFunding, Funding(Some(2), None, None), Funding(Some(2), None, Some(T11)),
     Funding(Some(-2), Some(T11), None)}

\* The answers of fetch_ohlcv: failures, and averages of 9, 10 and 5000.
VolumeAnswers ==
    {RaisesOhlcv, Ohlcv(<<>>), Ohlcv(<<<<1, 9>>>>), Ohlcv(<<<<2, 5>>>>),
     Ohlcv(<<<<100, 60>>, <<100, 40>>>>)}

\* The reported interval ('480' minutes on A, none on B) and the history.
ScanInterval(e) == IF e = "A" THEN PyStr(<<"4", "8", "0">>) ELSE NoInterval
ScanHistory == RateHistory(<<0, 4 * MS_PER_HOUR, 8 * MS_PER_HOUR>>)

ProcessStart ==
    /\ symbols_arg = None
    /\ pc = "start"
    /\ fut = [e \in Exchanges |-> Future("idle", <<>>, FALSE)]
    /\ all_rates = <<>>
    /\ skipped_exchanges = <<>>
    /\ calls = [e \in Exchanges |-> <<>>]
    /\ df_rates = <<>>
    /\ k = 1
    /\ sel = NoSelection
    /\ opportunities = <<>>
    /\ today = 1
    /\ csv = None
    /\ history_file = <<>>
    /\ runs = 1
    /\ call = NoCall
    /\ ret = None

InitScan ==
    /\ \E f \in [Exchanges -> RichFunding \X PoorFunding] :
          gw = [e \in Exchanges |->
                   ScanGateway(ScanInterval(e), [s \in 1..2 |-> f[e][s]],
                               [s \in 1..2 |-> VolumeAnswers], ScanHistory)]
    /\ ProcessStart

NextScan ==
    \/ Submit
    \/ \E e \in Exchanges : FetchExchangeRates(e)
    \/ \E e \in Exchanges : AsCompleted(e)
    \/ FetchReturn
    \/ MainGroup
    \/ ScanStep
    \/ MainFinish

SpecScan == InitScan /\ [][NextScan]_vars

-----------------------------------------------------------------------------
(* Scans and logs in turn: run_scan.bat run again and again *)

\* Four markets: one pair quoted at 11:00 and 19:00; each symbol quoted in
\* both directions (four combinations); one pair at the threshold; one
\* exchange without and one with a next-funding timestamp.
Quotes ==
    {[A |-> <<Funding(Some(2), None, None), Funding(None, None, None)>>,
      B |-> <<Funding(Some(-6), None, None), Funding(None, None, None)>>],
     [A |-> <<Funding(Some(-6), Some(T11), None), Funding(Some(-7), Some(T11), None)>>,
      B |-> <<Funding(Some(-6), Some(T15), None), Funding(Some(-5), Some(T15), None)>>],
     [A |-> <<Funding(Some(2), Some(T11), None), RaisesFunding>>,
      B |-> <<Funding(Some(-2), Some(T11), None), Funding(Some(6), Some(T15), None)>>],
     [A |-> <<Funding(Some(2), None, None), Funding(None, None, None)>>,
      B |-> <<Funding(Some(-6), Some(T11), None), Funding(None, None, None)>>]}

\* The candles: averages of 5000 everywhere; 10 for the first symbol on A;
\* 10 everywhere.
Volumes ==
    {[A |-> <<5000, 5000>>, B |-> <<5000, 5000>>],
     [A |-> <<10, 5000>>, B |-> <<5000, 5000>>],
     [A |-> <<10, 10>>, B |-> <<10, 10>>]}

Init ==
    /\ \E q \in Quotes, v \in Volumes :
          gw = [e \in Exchanges |->
                   ScanGateway(ScanInterval(e), [s \in 1..2 |-> q[e][s]],
                               [s \in 1..2 |-> {Ohlcv(<<<<v[e][s], 1>>>>)}], ScanHistory)]
    /\ ProcessStart

Next ==
    \/ Submit
    \/ \E e \in Exchanges : FetchExchangeRates(e)
    \/ \E e \in Exchanges : AsCompleted(e)
    \/ FetchReturn
    \/ MainGroup
    \/ ScanStep
    \/ MainFinish
    \/ LogTop3
    \/ NewRun
    \/ NextDay

Spec == Init /\ [][Next]_vars

-----------------------------------------------------------------------------
(* get_funding_interval called alone, over markets and histories of every kind *)

IntervalValues ==
    {NoInterval, PyNone, PyInt(0), PyInt(8), PyInt(24), PyInt(25), PyInt(90), PyInt(480),
     PyStr(<<"4">>), PyStr(<<"2", "4", "0">>), PyStr(<<"8", "h">>), PyStr(<<>>),
     PyStr(<<"4", ".", "0">>)}

IntervalHistories ==
    {RaisesHistory, RateHistory(<<>>), RateHistory(<<0>>),
     RateHistory(<<0, 4 * MS_PER_HOUR>>), RateHistory(<<8 * MS_PER_HOUR, 0>>),
     RateHistory(<<0, MS_PER_HOUR, 3 * MS_PER_HOUR>>),
     RateHistory(<<0, 8 * MS_PER_HOUR, 8 * MS_PER_HOUR>>),
     RateHistory(<<5400000, 0>>)}

\* An exchange with one market.
IntervalGateway(fundingInterval, hasHistory) ==
    [has_fetchFundingRates |-> TRUE, has_fetchFundingRate |-> TRUE,
     markets |-> <<MarketMeta(TRUE, TRUE, fundingInterval, Absent, Absent, Absent)>>,
     funding |-> <<Funding(None, None, None)>>,
     has_fetchOHLCV |-> FALSE, ohlcv |-> <<{RaisesOhlcv}>>,
     has_fetchFundingRateHistory |-> hasHistory, history |-> <<IntervalHistories>>]

InitInterval ==
    /\ \E raw \in IntervalValues, hasHistory \in BOOLEAN :
          gw = [e \in Exchanges |-> IntervalGateway(raw, hasHistory)]
    /\ ProcessStart

\* scanner.get_funding_interval(exchange_name, symbol) on a new scanner (its
\* clients hold no markets yet) or on one that fetched.
CallGetFundingInterval ==
    /\ call = NoCall
    /\ \E name \in Exchanges \cup {"unknown"}, symbol \in {1, 2},
          loaded, load_ok \in BOOLEAN, answer \in IntervalHistories :
          LET known == name \in Exchanges
              ex == gw[IF known THEN name ELSE "A"]
          IN  /\ call' = [fn |-> "get_funding_interval", exchange_name |-> name,
                          symbol |-> symbol, loaded |-> loaded, load_ok |-> load_ok,
                          answer |-> answer]
              /\ ret' = Some(get_funding_interval(known, ex, symbol, loaded, load_ok,
                                                  answer))
    /\ UNCHANGED <<gw, symbols_arg, pc, fut, all_rates, skipped_exchanges, calls,
                   df_rates, scan_vars, file_vars>>

NextInterval == CallGetFundingInterval

SpecInterval == InitInterval /\ [][NextInterval]_vars

-----------------------------------------------------------------------------
(* The selection of log_top3 alone: files of up to MaxRows rows *)

MaxRows == 4

\* A row of advanced_opportunities.csv, as the scan writes them.
CsvRow(par, long, short, hora, spread, vol_l, vol_s) ==
    [FECHA |-> 1, HORA |-> hora, PAR |-> par,
     VALOR_OP |-> POSITION_SIZE, LEVERAGE |-> LEVERAGE,
     LONG_EXCH |-> long, LONG_RATE |-> -spread, LONG_NEXT |-> NA,
     LONG_INTERVAL |-> Frac(DEFAULT_INTERVAL, 1), LONG_VOL_1M |-> Frac(vol_l, 1),
     LONG_FEE_TAKER |-> Some(DEFAULT_TAKER), LONG_FEE_MAKER |-> Some(DEFAULT_MAKER),
     SHORT_EXCH |-> short, SHORT_RATE |-> 0, SHORT_NEXT |-> NA,
     SHORT_INTERVAL |-> Frac(DEFAULT_INTERVAL, 1), SHORT_VOL_1M |-> Frac(vol_s, 1),
     SHORT_FEE_TAKER |-> Some(DEFAULT_TAKER), SHORT_FEE_MAKER |-> Some(DEFAULT_MAKER),
     SPREAD |-> spread, ASYMMETRIC |-> "No"]

\* Rows of four combinations with spreads of 0.005 and 0.008 (twice for two
\* of them) and volumes at and above MIN_VOL, and two rows of spread 0.009
\* with one volume below it.
CsvRows ==
    {CsvRow(1, "A", "B", 11, 5, MIN_VOL, 6000), CsvRow(1, "A", "B", 15, 8, MIN_VOL, 6000),
     CsvRow(1, "A", "B", 19, 8, 6000, MIN_VOL),
     CsvRow(1, "B", "A", 11, 5, MIN_VOL, 6000), CsvRow(1, "B", "A", 15, 8, MIN_VOL, 6000),
     CsvRow(1, "B", "A", 19, 8, 6000, MIN_VOL),
     CsvRow(2, "A", "B", 11, 5, MIN_VOL, 6000), CsvRow(2, "A", "B", 15, 8, MIN_VOL, 6000),
     CsvRow(2, "B", "A", 15, 8, MIN_VOL, 6000),
     CsvRow(1, "A", "B", 7, 9, MIN_VOL - 1, 6000), CsvRow(2, "B", "A", 7, 9, 6000, MIN_VOLUME_1M)}

CsvFiles == UNION {[1..n -> CsvRows] : n \in 1..MaxRows}

InitTop3 ==
    /\ gw = [e \in Exchanges |-> ScanGateway(NoInterval, <<>>, <<>>, ScanHistory)]
    /\ ProcessStart

\* log_top3.main from read_csv to the selection of top3, on a file that is
\* not empty.
SelectTop3 ==
    /\ call = NoCall
    /\ \E rows \in CsvFiles :
          /\ call' = [fn |-> "top3", rows |-> rows]
          /\ ret' = Some(Top3(read_csv(rows)))
    /\ UNCHANGED <<gw, symbols_arg, pc, fut, all_rates, skipped_exchanges, calls,
                   df_rates, scan_vars, file_vars>>

NextTop3 == SelectTop3

SpecTop3 == InitTop3 /\ [][NextTop3]_vars

-----------------------------------------------------------------------------
(* get_volume_1h and get_fees alone *)

MINUTES == 60

\* The fee fields a market can carry, and its feeSide.
FeeValues == {Absent, None, Some(0), Some(4)}
FeeSides == {Absent, Some("get"), Some("make"), Some("give")}

\* What fetch_ohlcv(symbol, '1m', limit=60) can answer: a failure, no candle,
\* 60 candles, or fewer (a market listed within the hour, minutes without a
\* trade).
CandleAnswers ==
    {RaisesOhlcv, Ohlcv(<<>>), Ohlcv([i \in 1..MINUTES |-> <<2, 5>>]),
     Ohlcv([i \in 1..MINUTES |-> <<i, 3>>]),
     Ohlcv(<<<<2, 5>>>>), Ohlcv(<<<<100, 60>>, <<100, 40>>>>),
     Ohlcv([i \in 1..30 |-> <<2, 5>>])}

EnrichGateway(hasOhlcv, taker, maker, feeSide) ==
    [has_fetchFundingRates |-> TRUE, has_fetchFundingRate |-> TRUE,
     markets |-> <<MarketMeta(TRUE, TRUE, NoInterval, taker, maker, feeSide)>>,
     funding |-> <<Funding(None, None, None)>>,
     has_fetchOHLCV |-> hasOhlcv, ohlcv |-> <<CandleAnswers>>,
     has_fetchFundingRateHistory |-> FALSE, history |-> <<{RaisesHistory}>>]

InitEnrich ==
    /\ \E hasOhlcv \in BOOLEAN, taker, maker \in FeeValues, feeSide \in FeeSides :
          gw = [e \in Exchanges |-> EnrichGateway(hasOhlcv, taker, maker, feeSide)]
    /\ ProcessStart

\* scanner.get_volume_1h(exchange_name, symbol)
CallGetVolume1h ==
    /\ call = NoCall
    /\ \E name \in Exchanges \cup {"unknown"}, answer \in CandleAnswers :
          LET known == name \in Exchanges
              ex == gw[IF known THEN name ELSE "A"]
          IN  /\ call' = [fn |-> "get_volume_1h", exchange_name |-> name,
                          answer |-> answer]
              /\ ret' = Some(get_volume_1h(known, ex, answer))
    /\ UNCHANGED <<gw, symbols_arg, pc, fut, all_rates, skipped_exchanges, calls,
                   df_rates, scan_vars, file_vars>>

\* get_fees(exch_name, sym); the second symbol is in no catalogue, and
\* ex.market can raise for the first.
CallGetFees ==
    /\ call = NoCall
    /\ \E name \in Exchanges \cup {"unknown"}, sym \in {1, 2}, market_ok \in BOOLEAN :
          LET known == name \in Exchanges
              ex == gw[IF known THEN name ELSE "A"]
          IN  /\ call' = [fn |-> "get_fees", exchange_name |-> name, symbol |-> sym,
                          market_ok |-> market_ok]
              /\ ret' = Some(get_fees(known, ex, sym, market_ok))
    /\ UNCHANGED <<gw, symbols_arg, pc, fut, all_rates, skipped_exchanges, calls,
                   df_rates, scan_vars, file_vars>>

NextEnrich ==
    \/ CallGetVolume1h
    \/ CallGetFees

SpecEnrich == InitEnrich /\ [][NextEnrich]_vars

-----------------------------------------------------------------------------
(* Claims about the collector *)

\* The symbols an exchange that did not fail has a quote for: those it knows,
\* answers without raising and with a funding rate, among those asked for;
\* without bulk support, those it fetches one by one.
QuotedSymbols(e) ==
    LET ex == gw[e]
        asked(s) == symbols_arg = None \/ s \in Range(Val(symbols_arg))
        answered(s) == ~ex.funding[s].raises /\ ex.funding[s].fundingRate # None
        linear == {s \in DOMAIN ex.markets : ex.markets[s].swap /\ ex.markets[s].linear}
    IN  IF ex.has_fetchFundingRates
        THEN {s \in DOMAIN ex.markets : asked(s) /\ answered(s)}
        ELSE IF ~ex.has_fetchFundingRate
                \/ (symbols_arg = None /\ Cardinality(linear) > SINGULAR_CEILING)
        THEN {}
        ELSE {s \in DOMAIN ex.markets :
                 /\ answered(s)
                 /\ IF symbols_arg = None THEN s \in linear ELSE asked(s)}

RowsOf(df, e) == {<<df[i].symbol, df[i].funding_rate>> : i \in {j \in DOMAIN df : df[j].exchange = e}}

\* C4: whatever subset of the exchanges fails (load_markets or the bulk fetch
\* raising), fetch_funding_rates is never stuck before it returns, and what it
\* returns holds, for every exchange that did not fail, exactly one row per
\* symbol it has a quote for, with that quote's rate, and no row of an exchange
\* that failed.
C4_PartialResults ==
    /\ pc \in {"start", "collect"} => ENABLED NextFetch
    /\ pc = "fetched" =>
          \A e \in Exchanges :
             IF fut[e].error
             THEN RowsOf(df_rates, e) = {}
             ELSE /\ RowsOf(df_rates, e) =
                        {<<s, Val(gw[e].funding[s].fundingRate)>> : s \in QuotedSymbols(e)}
                  /\ Cardinality({i \in DOMAIN df_rates : df_rates[i].exchange = e})
                        = Cardinality(QuotedSymbols(e))

\* C4 witness: the call returned with one exchange failed and the other's
\* quotes in the result.
C4_Witness ==
    /\ pc = "fetched"
    /\ fut["A"].error /\ ~fut["B"].error
    /\ QuotedSymbols("B") # {}
    /\ \E i \in DOMAIN df_rates : df_rates[i].exchange = "B"

NoBulk(e) == ~gw[e].has_fetchFundingRates /\ symbols_arg = None /\ ~fut[e].error
Finished(e) == fut[e].state \in {"done", "collected"}

\* C10 as stated: an exchange without bulk support is fetched symbol by symbol
\* only if it has fewer than 20 linear swaps.
C10_BelowCeiling ==
    \A e \in Exchanges :
        Finished(e) /\ NoBulk(e) /\ calls[e] # <<>>
            => Len(LinearSwapSymbols(gw[e])) < SINGULAR_CEILING

\* C10 amended: an exchange without bulk support, asked for all symbols, is
\* fetched symbol by symbol
\* only if it has at most 20 linear swaps, and then every linear swap is
\* fetched once if the exchange can fetch singly; with more than 20 it issues
\* no per-symbol fetch, contributes no quote and is in the skipped list.
C10_Ceiling ==
    \A e \in Exchanges :
        Finished(e) /\ NoBulk(e) =>
            LET linear == LinearSwapSymbols(gw[e]) IN
            IF Len(linear) > SINGULAR_CEILING
            THEN /\ calls[e] = <<>>
                 /\ fut[e].result = <<>>
                 /\ \E i \in DOMAIN skipped_exchanges :
                        skipped_exchanges[i] = [name |-> e, count |-> Len(linear)]
            ELSE /\ calls[e] = (IF gw[e].has_fetchFundingRate THEN linear ELSE <<>>)
                 /\ \A i \in DOMAIN skipped_exchanges : skipped_exchanges[i].name # e

\* C10 witness: one exchange at the ceiling was fetched symbol by symbol, the
\* other, above it, was skipped.
C10_Witness ==
    /\ NoBulk("A") /\ NoBulk("B") /\ Finished("A") /\ Finished("B")
    /\ Len(calls["A"]) = SINGULAR_CEILING
    /\ Len(LinearSwapSymbols(gw["B"])) = SINGULAR_CEILING + 1
    /\ calls["B"] = <<>>

-----------------------------------------------------------------------------
(* Claims about the spread detector *)

\* The rate of a row that counts at a target hour: 0 when it does not charge.
EffectiveRate(row, hour) ==
    IF check_funding_time_match(row.next_funding_time, hour).value
    THEN row.funding_rate ELSE 0

\* The last turn of the loop ran to its end (no exception).
TurnDone == sel # NoSelection /\ ~sel.raised

\* The opportunities emitted for the pair and hour of the last turn.
EmittedForTurn ==
    {i \in DOMAIN opportunities :
        /\ opportunities[i].PAR = sel.a.symbol
        /\ opportunities[i].HORA = sel.target_hour
        /\ {opportunities[i].LONG_EXCH, opportunities[i].SHORT_EXCH}
              = {sel.a.exchange, sel.b.exchange}}

\* C1: every opportunity emitted has a spread strictly above 0.004, and the
\* turn of a pair and hour whose selected spread is 0.004 or less emits none.
C1_StrictThreshold ==
    /\ \A i \in DOMAIN opportunities : opportunities[i].SPREAD > THRESHOLD
    /\ TurnDone /\ sel.best_spread <= THRESHOLD => EmittedForTurn = {}

\* C1 witness: a turn selected a spread of exactly 0.004 and emitted nothing,
\* after an earlier turn emitted an opportunity.
C1_Witness ==
    /\ TurnDone
    /\ sel.best_spread = THRESHOLD
    /\ EmittedForTurn = {}
    /\ opportunities # <<>>

Max(x, y) == IF x > y THEN x ELSE y

\* C2: in every turn the two directional spreads are negations of each other,
\* the selected spread is the larger one and is not negative, the long side is
\* the quote with the lower effective rate and the short side the one with the
\* higher, the spread being their difference; with A at 0.002 and B at -0.006
\* both charging at 11:00 the candidate is long B, short A, spread 0.008.
C2_Antisymmetric ==
    TurnDone =>
        LET long_eff == EffectiveRate(sel.long_side, sel.target_hour)
            short_eff == EffectiveRate(sel.short_side, sel.target_hour)
        IN  /\ sel.spread_1 = -sel.spread_2
            /\ sel.best_spread = Max(sel.spread_1, sel.spread_2)
            /\ sel.best_spread >= 0
            /\ {sel.long_side, sel.short_side} = {sel.a, sel.b}
            /\ long_eff <= short_eff
            /\ sel.best_spread = short_eff - long_eff
            /\ (/\ sel.a.exchange = "A" /\ sel.a.funding_rate = 2 /\ sel.a_charges
                /\ sel.b.exchange = "B" /\ sel.b.funding_rate = -6 /\ sel.b_charges
                /\ sel.target_hour = 11)
               => /\ sel.long_side.exchange = "B"
                  /\ sel.short_side.exchange = "A"
                  /\ sel.best_spread = 8

\* C2 witness: the turn of the example, A at 0.002 and B at -0.006 both
\* charging at 11:00, selected long B and short A.
C2_Witness ==
    /\ TurnDone
    /\ sel.a.exchange = "A" /\ sel.a.funding_rate = 2 /\ sel.a_charges
    /\ sel.b.exchange = "B" /\ sel.b.funding_rate = -6 /\ sel.b_charges
    /\ sel.target_hour = 11
    /\ sel.long_side.exchange = "B"
    /\ sel.best_spread = 8

AtLeastMin(v) == v # None /\ ~FracLess(Val(v), Frac(MIN_VOLUME_1M, 1))

\* The last turn's candidate passed the threshold and its volumes were fetched.
TurnEnriched == TurnDone /\ "vol_l" \in DOMAIN sel

\* C3: every opportunity of the scan's output has, on both sides, a volume
\* that is available and not below MIN_VOLUME_1M; a candidate whose two
\* volumes are available and at least the minimum (the minimum itself
\* included) is emitted, and one with a side unavailable or below is not.
C3_VolumeFloor ==
    /\ \A i \in DOMAIN opportunities :
          /\ AtLeastMin(Some(opportunities[i].LONG_VOL_1M))
          /\ AtLeastMin(Some(opportunities[i].SHORT_VOL_1M))
    /\ csv # None =>
          \A i \in DOMAIN Val(csv) :
             /\ AtLeastMin(Some(Val(csv)[i].LONG_VOL_1M))
             /\ AtLeastMin(Some(Val(csv)[i].SHORT_VOL_1M))
    /\ TurnEnriched =>
          IF AtLeastMin(sel.vol_l) /\ AtLeastMin(sel.vol_s)
          THEN /\ EmittedForTurn = {Len(opportunities)}
               /\ opportunities[Len(opportunities)].LONG_VOL_1M = Val(sel.vol_l)
               /\ opportunities[Len(opportunities)].SHORT_VOL_1M = Val(sel.vol_s)
          ELSE EmittedForTurn = {}

\* C3 witness: a candidate whose long side averaged exactly the minimum was
\* emitted, and the last turn's candidate, with no volume on one side, was not.
C3_Witness ==
    /\ \E i \in DOMAIN opportunities :
          opportunities[i].LONG_VOL_1M = Frac(MIN_VOLUME_1M, 1)
    /\ TurnEnriched
    /\ sel.vol_s = None
    /\ EmittedForTurn = {}

\* The rows of all_rates that became sel.a and sel.b.
Fetched(row) ==
    CHOOSE r \in Range(all_rates) : r.exchange = row.exchange /\ r.symbol = row.symbol

\* C9 as stated: in every turn, a quote fetched without a next-funding
\* timestamp is taken to charge at 11:00 and 19:00 and at no other target hour.
C9_FallbackHours ==
    sel # NoSelection =>
        /\ Fetched(sel.a).next_funding_time = None
              => ~sel.raised /\ (sel.a_charges <=> sel.target_hour \in {11, 19})
        /\ Fetched(sel.b).next_funding_time = None
              => ~sel.raised /\ (sel.b_charges <=> sel.target_hour \in {11, 19})

-----------------------------------------------------------------------------
(* Claims about the report writer *)

IsHeading(line) == line.kind = "heading"
IsColumns(line) == line.kind = "columns"
IsRow(line) == line.kind \in {"row", "placeholder"}
Count(log, Test(_)) == Cardinality({i \in DOMAIN log : Test(log[i])})

\* A run of log_top3 is this step.
LogStep == pc \in {"done", "crashed"} /\ pc' = "logged"

HasHeading(log, date) == \E i \in DOMAIN log : log[i] = Heading(date)

\* C5 as stated: a run of log_top3 that finds today's heading in the log
\* appends every row of the new top 3, and neither a heading nor a
\* column-header row.
C5_AppendUnderHeading ==
    [][(LogStep /\ HasHeading(history_file, today) /\ csv # None)
        => LET top3 == Top3(read_csv(Val(csv))) IN
           /\ Count(history_file', IsHeading) = Count(history_file, IsHeading)
           /\ Count(history_file', IsColumns) = Count(history_file, IsColumns)
           /\ top3 # <<>> =>
                 /\ Len(history_file') >= Len(history_file) + Len(top3)
                 /\ \A n \in DOMAIN top3 :
                       history_file'[Len(history_file') - Len(top3) + n].kind = "row"
                       /\ history_file'[Len(history_file') - Len(top3) + n].rank = n]_vars

\* C6 as stated: a run of log_top3 that reads a file of which no row passes
\* the volume filter appends one placeholder row.
C6_PlaceholderRow ==
    [][(LogStep /\ csv # None /\ Top3(read_csv(Val(csv))) = <<>>)
        => /\ Count(history_file', IsRow) = Count(history_file, IsRow) + 1
           /\ history_file'[Len(history_file')].kind = "placeholder"]_vars

\* C7 as stated: when a scan has run to its end, the file holds the
\* opportunities of that scan and no others.
C7_FileIsLastScan ==
    pc = "done" =>
        IF opportunities = <<>> THEN csv = None \/ csv = Some(<<>>)
        ELSE csv = Some(opportunities)

-----------------------------------------------------------------------------
(* Claims about the enrichment layer *)

\* The call of get_funding_interval returned.
IntervalReturned == call # NoCall /\ call.fn = "get_funding_interval"

\* The market of the call, when the exchange is configured, its markets are
\* (or get) loaded and hold the symbol.
MarketFound ==
    /\ call.exchange_name \in Exchanges
    /\ call.loaded \/ call.load_ok
    /\ call.symbol \in DOMAIN gw[call.exchange_name].markets

Reported == PyIntOf(gw[call.exchange_name].markets[call.symbol].fundingInterval)
ReportedParses ==
    gw[call.exchange_name].markets[call.symbol].fundingInterval # NoInterval
    /\ Reported # None

\* The history is available with at least two entries.
HistoryAvailable ==
    /\ gw[call.exchange_name].has_fetchFundingRateHistory
    /\ ~call.answer.raises
    /\ Len(call.answer.timestamps) >= 2

\* The difference between the two latest timestamps of the history.
LatestDiff ==
    LET ts == call.answer.timestamps
        last == CHOOSE i \in DOMAIN ts : \A j \in DOMAIN ts : ts[i] >= ts[j]
        prev == CHOOSE i \in DOMAIN ts \ {last} : \A j \in DOMAIN ts \ {last} : ts[i] >= ts[j]
    IN  ts[last] - ts[prev]

Hours(n) == Frac(n, 1)

\* C8 as stated: the reported interval when it parses (over 60 above 24),
\* else the hours between the two latest entries of a history of two entries
\* or more, else 8.
C8_PriorityChain ==
    IntervalReturned =>
        Val(ret) =
            IF MarketFound /\ ReportedParses
            THEN IF Val(Reported) > 24 THEN Frac(Val(Reported), 60) ELSE Hours(Val(Reported))
            ELSE IF MarketFound /\ HistoryAvailable THEN Frac(LatestDiff, MS_PER_HOUR)
            ELSE Hours(8)

\* C8 amended: the reported interval when it parses as an integer (over 60
\* above 24), whatever the history; else, with a history of two entries or
\* more whose two latest timestamps differ, the hours between them; else 8.
C8_PriorityChainPositive ==
    IntervalReturned =>
        Val(ret) =
            IF MarketFound /\ ReportedParses
            THEN IF Val(Reported) > 24 THEN Frac(Val(Reported), 60) ELSE Hours(Val(Reported))
            ELSE IF MarketFound /\ HistoryAvailable /\ LatestDiff > 0
            THEN Frac(LatestDiff, MS_PER_HOUR)
            ELSE Hours(8)

\* C8 witness: no interval is reported, the history holds three entries and
\* the call returned the 2 hours between the two latest.
C8_Witness ==
    /\ IntervalReturned
    /\ MarketFound /\ ~ReportedParses /\ HistoryAvailable
    /\ LatestDiff = 2 * MS_PER_HOUR
    /\ Val(ret) = Hours(2)

-----------------------------------------------------------------------------
(* Claims about the order of completion *)

\* The orders in which the workers can complete.
CompletionOrders ==
    {o \in [1..Cardinality(Exchanges) -> Exchanges] :
        \A i, j \in DOMAIN o : i # j => o[i] # o[j]}

RECURSIVE RowsInOrder(_)
\* all_rates when the workers complete in the given order.
RowsInOrder(o) ==
    IF o = <<>> THEN <<>> ELSE fut[Head(o)].result \o RowsInOrder(Tail(o))

\* What a scan of the frame finds up to the threshold test: whether it ends
\* in an exception, and otherwise the candidates as (symbol, target hour,
\* long exchange, short exchange, spread).
ScanOutcome(df) ==
    LET its == Iterations(df)
        turn(i) == SelectSpread(its[i].a, its[i].b, its[i].target_hour)
        crashed == \E i \in DOMAIN its : turn(i).raised
    IN  [crashed |-> crashed,
         found |-> IF crashed THEN {}
                   ELSE {<<its[i].symbol, its[i].target_hour,
                           turn(i).long_side.exchange, turn(i).short_side.exchange,
                           turn(i).best_spread>> :
                           i \in {j \in DOMAIN its : Qualifies(turn(j).best_spread)}}]

\* The opportunities emitted so far, as the same tuples.
EmittedTuples ==
    {<<opportunities[i].PAR, opportunities[i].HORA, opportunities[i].LONG_EXCH,
       opportunities[i].SHORT_EXCH, opportunities[i].SPREAD>> : i \in DOMAIN opportunities}

\* C11: once the workers' results are collected, the rows are those of one
\* completion order, every completion order of the same results gives the
\* same scan outcome (the same candidates, or an exception in each), and the
\* opportunities of a scan that ran to its end are among those candidates.
C11_OrderIndependent ==
    pc \in {"fetched", "scan", "done", "crashed"} =>
        /\ \E o \in CompletionOrders : all_rates = RowsInOrder(o)
        /\ \A o1, o2 \in CompletionOrders :
              ScanOutcome(DataFrame(RowsInOrder(o1))) = ScanOutcome(DataFrame(RowsInOrder(o2)))
        /\ pc = "done" =>
              \A o \in CompletionOrders :
                 EmittedTuples \subseteq ScanOutcome(DataFrame(RowsInOrder(o))).found
        /\ pc = "crashed" => ScanOutcome(df_rates).crashed

\* C11 witness: B's worker completed before A's, both brought quotes, and the
\* scan ended with an opportunity.
C11_Witness ==
    /\ pc = "done"
    /\ all_rates # <<>>
    /\ all_rates[1].exchange = "B"
    /\ fut["A"].result # <<>>
    /\ opportunities # <<>>

-----------------------------------------------------------------------------
(* Claims about the selection of the log *)

\* The selection returned.
Top3Returned == call # NoCall /\ call.fn = "top3"

\* The rows of the file read that pass the volume floor of the log.
QualifyingRows ==
    {r \in Range(read_csv(call.rows)) :
        /\ ~FracLess(r.LONG_VOL_1M, Frac(MIN_VOL, 1))
        /\ ~FracLess(r.SHORT_VOL_1M, Frac(MIN_VOL, 1))}

\* C12: the rows selected are at most 3, rows of the file with both volumes
\* at least 5000, of pairwise different combinations, each of the highest
\* spread of its combination, in descending order of spread, and no
\* qualifying combination left out has a spread above a selected one; they
\* are 3 when three combinations or more qualify, and one per qualifying
\* combination otherwise.
C12_Top3Selection ==
    Top3Returned =>
        LET top3 == Val(ret)
            selected == {Combo(top3[n]) : n \in DOMAIN top3}
            combos == {Combo(r) : r \in QualifyingRows}
        IN  /\ Len(top3) <= 3
            /\ \A n \in DOMAIN top3 : top3[n] \in QualifyingRows
            /\ \A n, m \in DOMAIN top3 : n # m => Combo(top3[n]) # Combo(top3[m])
            /\ \A n \in DOMAIN top3 : \A r \in QualifyingRows :
                  Combo(r) = Combo(top3[n]) => r.SPREAD <= top3[n].SPREAD
            /\ \A n \in DOMAIN top3 : n > 1 => top3[n - 1].SPREAD >= top3[n].SPREAD
            /\ \A r \in QualifyingRows : Combo(r) \notin selected =>
                  \A n \in DOMAIN top3 : r.SPREAD <= top3[n].SPREAD
            /\ Len(top3) = (IF Cardinality(combos) < 3 THEN Cardinality(combos) ELSE 3)

\* C12 witness: four combinations qualify, the three selected are not all of
\* one spread, and the one left out has the lowest.
C12_Witness ==
    /\ Top3Returned
    /\ Cardinality({Combo(r) : r \in QualifyingRows}) = 4
    /\ Len(Val(ret)) = 3
    /\ Val(ret)[1].SPREAD > Val(ret)[3].SPREAD
    /\ \E r \in QualifyingRows :
          /\ Combo(r) \notin {Combo(Val(ret)[n]) : n \in DOMAIN Val(ret)}
          /\ r.SPREAD <= Val(ret)[3].SPREAD

-----------------------------------------------------------------------------
(* Claims about the volume and the fees *)

VolumeReturned == call # NoCall /\ call.fn = "get_volume_1h"

\* C13 as stated: get_volume_1h returns the sum of close x volume over the
\* candles fetched divided by 60, and None when the exchange is unknown, has
\* no OHLCV capability, raises or returns no candle.
C13_SumOverSixty ==
    VolumeReturned =>
        LET candles == call.answer.candles
            failed == \/ call.exchange_name \notin Exchanges
                      \/ ~gw["A"].has_fetchOHLCV
                      \/ call.answer.raises
                      \/ candles = <<>>
        IN  Val(ret) =
               IF failed THEN None
               ELSE Some(Frac(SeqSum([i \in DOMAIN candles |-> candles[i][1] * candles[i][2]]),
                              60))

FeesReturned == call # NoCall /\ call.fn = "get_fees"

\* The market of the fee lookup, when the exchange and the market are found.
FeeLookupFails ==
    \/ call.exchange_name \notin Exchanges
    \/ ~call.market_ok
    \/ call.symbol \notin DOMAIN gw["A"].markets
FeeMarket == gw[call.exchange_name].markets[call.symbol]

\* A fee field that holds a number.
Explicit(field) == field # Absent /\ field # None

\* C14 as stated: get_fees returns taker 0.0005 and maker 0.0002 when the
\* lookup of the exchange or of the market fails; otherwise each of the two is
\* its default when the market has no such field, whatever its other fields,
\* and the field's value when it holds one.
C14_FeeDefaults ==
    FeesReturned =>
        IF FeeLookupFails
        THEN Val(ret) = [taker |-> Some(DEFAULT_TAKER), maker |-> Some(DEFAULT_MAKER)]
        ELSE /\ FeeMarket.taker = Absent => Val(ret).taker = Some(DEFAULT_TAKER)
             /\ FeeMarket.maker = Absent => Val(ret).maker = Some(DEFAULT_MAKER)
             /\ Explicit(FeeMarket.taker) => Val(ret).taker = FeeMarket.taker
             /\ Explicit(FeeMarket.maker) => Val(ret).maker = FeeMarket.maker

-----------------------------------------------------------------------------
(* Claims about ties *)

\* The row of the frame an opportunity's side comes from.
FrameRow(exchange, symbol) ==
    CHOOSE r \in Range(df_rates) : r.exchange = exchange /\ r.symbol = symbol

\* C15: a turn whose two directional spreads are equal emits no opportunity;
\* a turn that emits one selects the same long and short side when the pair
\* is taken in the other order; and of every opportunity emitted at least one
\* side charges at its target hour.
C15_NoTies ==
    /\ TurnDone /\ sel.spread_1 = sel.spread_2 => EmittedForTurn = {}
    /\ TurnDone /\ EmittedForTurn # {} =>
          LET swapped == SelectSpread(sel.b, sel.a, sel.target_hour)
          IN  /\ swapped.long_side = sel.long_side
              /\ swapped.short_side = sel.short_side
              /\ swapped.best_spread = sel.best_spread
    /\ pc \in {"scan", "done"} =>
          \A i \in DOMAIN opportunities :
             LET o == opportunities[i] IN
             \/ check_funding_time_match(
                    FrameRow(o.LONG_EXCH, o.PAR).next_funding_time, o.HORA).value
             \/ check_funding_time_match(
                    FrameRow(o.SHORT_EXCH, o.PAR).next_funding_time, o.HORA).value

\* C15 witness: after an opportunity was emitted, a turn in which both
\* exchanges charge the same rate emitted nothing.
C15_Witness ==
    /\ TurnDone
    /\ sel.a_charges /\ sel.b_charges
    /\ sel.rate_a_eff # 0
    /\ sel.spread_1 = sel.spread_2
    /\ EmittedForTurn = {}
    /\ opportunities # <<>>

====
